---- MODULE Spec2Model ----
(***************************************************************************)
(* Folder monitor service (monitor.go): the lifecycle controller           *)
(* (program.Start / program.Stop), the dispatch loop (program.run) and the *)
(* copy operation (copyFile), together with the environment they run in:   *)
(* the host that calls Start/Stop, the filesystem, and the fsnotify        *)
(* watcher that feeds the loop's two channels.                             *)
(*                                                                         *)
(* Goroutines are modelled one statement (one system call or one channel   *)
(* operation) per step.  Go's select is modelled as the runtime performs   *)
(* it: the channel operands are evaluated once on entry, a ready case is   *)
(* chosen at random among the ready ones, and when none is ready the       *)
(* goroutine parks and is handed the first case that becomes ready.        *)
(***************************************************************************)
EXTENDS Naturals, Sequences, FiniteSets

\* ------------------------------------------------------------------ bounds
\* Number of Start() calls the host issues (one dispatch loop per call).
MaxStarts == 2
\* Budget of outside activity in one run: every operation of the environment
\* (a file operation in the source directory, a watcher error, a stream
\* closure) spends one unit, every restart of the service RestartCost units.
MaxOps == 3
RestartCost == 2

\* ---------------------------------------------------------------- universe
Loops == 1..MaxStarts

\* Config.SourceDir / Config.DestDir: a path is a sequence of components.
SourceDir == <<"src">>
DestDir == <<"dst">>
Names == {"a", "b"}

\* filepath.Join(dir, name) and filepath.Base(path).
Join(dir, name) == Append(dir, name)
Base(path) == path[Len(path)]

SrcPaths == {Join(SourceDir, n) : n \in Names}
DstPaths == {Join(DestDir, n) : n \in Names}
Paths == SrcPaths \cup DstPaths

\* File contents: byte sequences small enough for one read of io.Copy.
Data == {<<1>>, <<1, 2>>}
IsPrefix(s, t) == Len(s) <= Len(t) /\ SubSeq(t, 1, Len(s)) = s
Prefixes(t) == {SubSeq(t, 1, n) : n \in 0..(Len(t) - 1)}

\* A directory entry: nothing, a regular file, a directory, or something
\* else that is neither (a socket, a device).
Absent == [kind |-> "none", data |-> <<>>]
Reg(d) == [kind |-> "reg", data |-> d]
Dir == [kind |-> "dir", data |-> <<>>]
Other == [kind |-> "other", data |-> <<>>]

\* fsnotify.Op is a bit mask; fsnotify.Create is its lowest bit, and Write
\* and Remove are the next two.
Create == 1
WriteOp == 2 * Create
RemoveOp == 4 * Create
\* event.Op&fsnotify.Create == fsnotify.Create
IsCreate(op) == (op % (2 * Create)) \div Create = 1

NoEvent == [name |-> <<>>, op |-> 0, late |-> FALSE]
NoFd == [kind |-> "none", data |-> <<>>, path |-> <<>>, linked |-> FALSE]

VARIABLES
    exit,      \* program.exit: 0 is the nil channel, n the channel made by the n-th Start
    closed,    \* the exit channels that have been closed
    panicked,  \* "" or the message of the runtime panic that ended the process
    pc,        \* per loop: position of the goroutine in run / copyFile
    ex,        \* per loop: the exit channel its select is parked on
    ev,        \* per loop: the event being handled (local variable event)
    evq,       \* per loop: watcher.Events, the notifications not yet received
    errq,      \* per loop: number of values waiting on watcher.Errors
    evcl,      \* per loop: watcher.Events has been closed
    errcl,     \* per loop: watcher.Errors has been closed
    w,         \* per loop: the watcher: "none", "new", "watching", "closed"
    err,       \* per loop: the error returned by copyFile
    ret,       \* per loop: the return statement by which run ended
    fd,        \* per loop: the source file opened by copyFile
    fs,        \* the files of the source and destination directories
    destDir,   \* the destination directory itself: "absent", "dir", "file" (the
               \*   path names a plain file), "noperm" (os.Stat and every access
               \*   to it fail with permission denied)
    ops,       \* units of the activity budget spent so far
    svcLogger, \* the global svcLogger: "nil" or "ok"
    mainPc,    \* who drives the controller: "host", or the position of main
    \* History variables (they record what happened and decide nothing):
    nerr,      \* per loop: watcher errors received in a row before the current notification
    failed,    \* per loop: the last notification handled ended in a stat or copy failure
    stopDone,  \* the last Stop found the loop of its channel already returned
    stopCopy,  \* the loop that the last Stop found inside copyFile, until the
               \*   outcome of that copy is logged; 0 when there is none
    made,      \* run has created the destination directory
    startRet   \* the value returned by the last Start: "none" before any call

vars == <<exit, closed, panicked, pc, ex, ev, evq, errq, evcl, errcl, w, err,
          ret, fd, fs, destDir, ops, svcLogger, mainPc, nerr, failed, stopDone,
          stopCopy, made, startRet>>

hostVars == <<exit, closed, panicked, svcLogger, mainPc, startRet>>
chanVars == <<evq, errq, evcl, errcl>>
dirVars == <<destDir, made>>
fileVars == <<fs, dirVars>>
stopVars == <<stopDone, stopCopy>>
histVars == <<nerr, failed, stopVars>>

\* The process is alive: a panic in any goroutine ends all of them, and so
\* does the return of main.
Alive == panicked = "" /\ mainPc # "exited"

\* ---------------------------------------------------------------- initial
\* The controller as main builds it (exit is nil, no loop launched).  The
\* source directory starts empty; the destination directory may be missing
\* (run then creates it, empty), be a directory that already holds a file,
\* be a plain file, or be unreadable.
InitFs ==
    {f \in [Paths -> {Absent, Reg(<<1, 2>>)}] :
        /\ \A p \in SrcPaths : f[p] = Absent
        /\ f[Join(DestDir, "b")] = Absent}

InitState ==
    /\ exit = 0
    /\ closed = {}
    /\ panicked = ""
    /\ pc = [l \in Loops |-> "none"]
    /\ ex = [l \in Loops |-> 0]
    /\ ev = [l \in Loops |-> NoEvent]
    /\ evq = [l \in Loops |-> <<>>]
    /\ errq = [l \in Loops |-> 0]
    /\ evcl = [l \in Loops |-> FALSE]
    /\ errcl = [l \in Loops |-> FALSE]
    /\ w = [l \in Loops |-> "none"]
    /\ err = [l \in Loops |-> "nil"]
    /\ ret = [l \in Loops |-> "none"]
    /\ fd = [l \in Loops |-> NoFd]
    /\ destDir \in {"absent", "dir", "file", "noperm"}
    /\ fs \in InitFs
    /\ destDir # "dir" <=> \A p \in DstPaths : fs[p] = Absent
    /\ ops = 0
    /\ nerr = [l \in Loops |-> 0]
    /\ failed = [l \in Loops |-> FALSE]
    /\ stopDone = FALSE
    /\ stopCopy = 0
    /\ made = FALSE
    /\ startRet = "none"
    /\ svcLogger = "nil"

\* The controller driven directly by a host that calls Start and Stop.
Init == InitState /\ mainPc = "host"

\* ------------------------------------------------------- lifecycle (host)
\* The loops whose select is parked on channel ch.
ParkedOn(ch) == {l \in Loops : pc[l] = "parked" /\ ex[l] = ch}

\* Start as it would be if it checked the destination directory itself and
\* returned the error instead of leaving it to run.
Start_ChecksDestDir ==
    /\ Alive
    /\ mainPc = "host" \/ (mainPc = "running" /\ exit = 0)
    /\ exit < MaxStarts
    /\ exit = 0 \/ (exit \in closed /\ ops + RestartCost <= MaxOps)
    /\ ops' = IF exit = 0 THEN ops ELSE ops + RestartCost
    /\ exit' = exit + 1
    /\ pc' = [pc EXCEPT ![exit + 1] = IF destDir = "dir" THEN "newwatcher" ELSE "done"]
    /\ startRet' = IF destDir = "dir" THEN "nil" ELSE "error"
    /\ UNCHANGED <<closed, panicked, svcLogger, mainPc, ex, ev, chanVars, w, err, ret,
                   fd, fileVars, histVars>>

\* program.Start: make a fresh exit channel and launch run in a goroutine.
\* The host calls it on a controller that is not started, or whose last
\* Stop has returned.
Start ==
    /\ Alive
    /\ mainPc = "host" \/ (mainPc = "running" /\ exit = 0)
    /\ exit < MaxStarts
    /\ exit = 0 \/ (exit \in closed /\ ops + RestartCost <= MaxOps)
    /\ ops' = IF exit = 0 THEN ops ELSE ops + RestartCost
    /\ exit' = exit + 1
    /\ pc' = [pc EXCEPT ![exit + 1] = "idle"]
    /\ startRet' = "nil"
    /\ UNCHANGED <<closed, panicked, svcLogger, mainPc, ex, ev, chanVars, w, err, ret,
                   fd, fileVars, histVars>>

\* The process ends: every goroutine still running is gone, and with it its
\* channels and files.
ProcessEnds ==
    /\ pc' = [l \in Loops |-> IF pc[l] \in {"none", "done"} THEN pc[l] ELSE "crashed"]
    /\ ex' = [l \in Loops |-> 0]
    /\ ev' = [l \in Loops |-> NoEvent]
    /\ evq' = [l \in Loops |-> <<>>]
    /\ errq' = [l \in Loops |-> 0]
    /\ err' = [l \in Loops |-> "nil"]
    /\ fd' = [l \in Loops |-> NoFd]
    /\ nerr' = [l \in Loops |-> 0]
    /\ failed' = [l \in Loops |-> FALSE]

\* A runtime panic in the goroutine of the host or of main ends the process.
Panic(msg) ==
    /\ panicked' = msg
    /\ ProcessEnds

\* Stop as it would be if it closed the channel a second time on its way out
\* (close(p.exit) both deferred and called): every call panics.
Stop_ClosesTwice ==
    /\ Alive
    /\ exit # 0
    /\ Panic("close of closed channel")
    /\ closed' = closed \cup {exit}
    /\ UNCHANGED <<exit, evcl, errcl, w, ret, fileVars, ops, stopVars, svcLogger,
                   mainPc, startRet>>

\* Stop as it would be if the signal interrupted the loop wherever it is, a
\* copy in flight included, instead of waiting for the next select.
Stop_Interrupts ==
    /\ Alive
    /\ mainPc \in {"host", "running"}
    /\ exit # 0
    /\ exit \notin closed
    /\ closed' = closed \cup {exit}
    /\ pc' = [l \in Loops |->
                IF \/ l \in ParkedOn(exit)
                   \/ l = exit /\ pc[l] \in {"cfstat", "open", "create", "copy"}
                THEN "exit" ELSE pc[l]]
    /\ fd' = [fd EXCEPT ![exit] = NoFd]
    /\ mainPc' = IF mainPc = "running" THEN "stopped" ELSE mainPc
    /\ UNCHANGED <<exit, panicked, ex, ev, chanVars, w, err, ret, fileVars, ops,
                   svcLogger, startRet, histVars>>

\* program.Stop: close(p.exit), log, return nil.  Closing a closed channel
\* panics.  A goroutine parked in select on the channel is handed the exit
\* case by the close.
Stop ==
    /\ Alive
    /\ mainPc \in {"host", "running"}
    /\ exit # 0
    /\ IF exit \in closed
       THEN /\ Panic("close of closed channel")
            /\ UNCHANGED <<closed, stopVars>>
       ELSE /\ closed' = closed \cup {exit}
            /\ pc' = [l \in Loops |-> IF l \in ParkedOn(exit) THEN "exit" ELSE pc[l]]
            /\ stopDone' = (pc[exit] = "done")
            /\ stopCopy' = IF pc[exit] \in {"cfstat", "open", "create", "copy"}
                           THEN exit ELSE 0
            /\ UNCHANGED <<panicked, ex, ev, evq, errq, err, fd, nerr, failed>>
    /\ mainPc' = IF mainPc = "running" THEN "stopped" ELSE mainPc
    /\ UNCHANGED <<exit, evcl, errcl, w, ret, fileVars, ops, svcLogger, startRet>>

\* ------------------------------------------------------------ run: setup
\* run as it would be without defer watcher.Close(): the watcher is left as
\* it is when run returns.
Return_NoClose(l, why) ==
    /\ pc' = [pc EXCEPT ![l] = "done"]
    /\ ret' = [ret EXCEPT ![l] = why]
    /\ ev' = [ev EXCEPT ![l] = NoEvent]
    /\ nerr' = [nerr EXCEPT ![l] = 0]
    /\ failed' = [failed EXCEPT ![l] = FALSE]
    /\ UNCHANGED <<w, evq, errq, stopVars>>

\* run returns through the return statement `why`; the deferred
\* watcher.Close() runs when a watcher exists.
Return(l, why) ==
    /\ pc' = [pc EXCEPT ![l] = "done"]
    /\ ret' = [ret EXCEPT ![l] = why]
    /\ w' = [w EXCEPT ![l] = IF w[l] = "none" THEN "none" ELSE "closed"]
    /\ ev' = [ev EXCEPT ![l] = NoEvent]
    /\ evq' = [evq EXCEPT ![l] = <<>>]
    /\ errq' = [errq EXCEPT ![l] = 0]
    /\ nerr' = [nerr EXCEPT ![l] = 0]
    /\ failed' = [failed EXCEPT ![l] = FALSE]
    /\ UNCHANGED stopVars

\* run as it would be if it logged that the destination directory is missing
\* and went on without creating it.
EnsureDestDir_NoMkdir(l) ==
    /\ Alive
    /\ pc[l] = "idle"
    /\ pc' = [pc EXCEPT ![l] = "newwatcher"]
    /\ UNCHANGED <<hostVars, ex, ev, chanVars, w, err, ret, fd, fileVars, ops, histVars>>

\* os.Stat(destDir); if os.IsNotExist(err), os.MkdirAll(destDir).
EnsureDestDir(l) ==
    /\ Alive
    /\ pc[l] = "idle"
    /\ IF destDir = "absent"
       THEN \/ /\ destDir' = "dir"
               /\ made' = TRUE
               /\ pc' = [pc EXCEPT ![l] = "newwatcher"]
               /\ UNCHANGED <<ret, w, ev, evq, errq, histVars>>
            \/ /\ Return(l, "mkdir")
               /\ UNCHANGED dirVars
       ELSE /\ pc' = [pc EXCEPT ![l] = "newwatcher"]
            /\ UNCHANGED <<dirVars, ret, w, ev, evq, errq, histVars>>
    /\ UNCHANGED <<hostVars, ex, evcl, errcl, err, fd, fs, ops>>

\* fsnotify.NewWatcher() and, on success, defer watcher.Close().
NewWatcher(l) ==
    /\ Alive
    /\ pc[l] = "newwatcher"
    /\ \/ /\ w' = [w EXCEPT ![l] = "new"]
          /\ pc' = [pc EXCEPT ![l] = "add"]
          /\ UNCHANGED <<ret, ev, evq, errq, histVars>>
       \/ Return(l, "newwatcher")
    /\ UNCHANGED <<hostVars, ex, evcl, errcl, err, fd, fileVars, ops>>

\* run as it would be if it logged the watcher.Add error and went on into
\* the loop instead of returning.
WatcherAdd_GoesOn(l) ==
    /\ Alive
    /\ pc[l] = "add"
    /\ \/ w' = [w EXCEPT ![l] = "watching"]
       \/ UNCHANGED w
    /\ pc' = [pc EXCEPT ![l] = "loop"]
    /\ UNCHANGED <<hostVars, ex, ev, chanVars, err, ret, fd, fileVars, ops, histVars>>

\* watcher.Add(sourceDir): the subscription starts, or run returns.
WatcherAdd(l) ==
    /\ Alive
    /\ pc[l] = "add"
    /\ \/ /\ w' = [w EXCEPT ![l] = "watching"]
          /\ pc' = [pc EXCEPT ![l] = "loop"]
          /\ UNCHANGED <<ret, ev, evq, errq, histVars>>
       \/ Return(l, "add")
    /\ UNCHANGED <<hostVars, ex, evcl, errcl, err, fd, fileVars, ops>>

\* ----------------------------------------------------------- run: select
\* The values a read of p.exit by loop l can return.  The goroutine was
\* launched after the write that made channel l; every later write by Start
\* is unsynchronised with the read, so the read may see any of them.
Readable(l) == l..exit

EventsReady(l) == evq[l] # <<>> \/ evcl[l]
ErrorsReady(l) == errq[l] > 0 \/ errcl[l]

\* if event.Op&fsnotify.Create == fsnotify.Create { ... }: a create
\* notification goes on to os.Stat, any other ends the iteration.
AfterEvent(e) == IF IsCreate(e.op) THEN "stat" ELSE "loop"
Received(e) == IF IsCreate(e.op) THEN e ELSE NoEvent

\* run as it would be without the test of event.Op: every notification
\* received goes on to os.Stat.
SelectEvent_AnyOp(l) ==
    /\ Alive
    /\ pc[l] = "loop"
    /\ evq[l] # <<>>
    /\ ev' = [ev EXCEPT ![l] = Head(evq[l])]
    /\ evq' = [evq EXCEPT ![l] = Tail(evq[l])]
    /\ pc' = [pc EXCEPT ![l] = "stat"]
    /\ UNCHANGED <<hostVars, ex, errq, evcl, errcl, w, err, ret, fd, fileVars, ops,
                   histVars>>

\* case event, ok := <-watcher.Events, with a value.
SelectEvent(l) ==
    /\ Alive
    /\ pc[l] = "loop"
    /\ evq[l] # <<>>
    /\ ev' = [ev EXCEPT ![l] = Received(Head(evq[l]))]
    /\ evq' = [evq EXCEPT ![l] = Tail(evq[l])]
    /\ pc' = [pc EXCEPT ![l] = AfterEvent(Head(evq[l]))]
    /\ nerr' = [nerr EXCEPT ![l] = IF IsCreate(Head(evq[l]).op) THEN nerr[l] ELSE 0]
    /\ UNCHANGED <<hostVars, ex, errq, evcl, errcl, w, err, ret, fd, fileVars, ops,
                   failed, stopVars>>

\* case event, ok := <-watcher.Events, closed and drained: ok is false.
SelectEventsClosed(l) ==
    /\ Alive
    /\ pc[l] = "loop"
    /\ evq[l] = <<>> /\ evcl[l]
    /\ pc' = [pc EXCEPT ![l] = "evclosed"]
    /\ UNCHANGED <<hostVars, ex, ev, chanVars, w, err, ret, fd, fileVars, ops, histVars>>

\* case err, ok := <-watcher.Errors, with a value.
SelectError(l) ==
    /\ Alive
    /\ pc[l] = "loop"
    /\ errq[l] > 0
    /\ errq' = [errq EXCEPT ![l] = errq[l] - 1]
    /\ pc' = [pc EXCEPT ![l] = "error"]
    /\ nerr' = [nerr EXCEPT ![l] = nerr[l] + 1]
    /\ UNCHANGED <<hostVars, ex, ev, evq, evcl, errcl, w, err, ret, fd, fileVars, ops,
                   failed, stopVars>>

\* case err, ok := <-watcher.Errors, closed and drained: ok is false.
SelectErrorsClosed(l) ==
    /\ Alive
    /\ pc[l] = "loop"
    /\ errq[l] = 0 /\ errcl[l]
    /\ pc' = [pc EXCEPT ![l] = "errclosed"]
    /\ UNCHANGED <<hostVars, ex, ev, chanVars, w, err, ret, fd, fileVars, ops, histVars>>

\* case <-p.exit, the channel read from p.exit being closed.
SelectExit(l) ==
    /\ Alive
    /\ pc[l] = "loop"
    /\ \E ch \in Readable(l) : ch \in closed
    /\ pc' = [pc EXCEPT ![l] = "exit"]
    /\ UNCHANGED <<hostVars, ex, ev, chanVars, w, err, ret, fd, fileVars, ops, histVars>>

\* No case is ready: the goroutine parks on the three channels.
SelectPark(l) ==
    /\ Alive
    /\ pc[l] = "loop"
    /\ ~EventsReady(l) /\ ~ErrorsReady(l)
    /\ \E ch \in Readable(l) :
          /\ ch \notin closed
          /\ ex' = [ex EXCEPT ![l] = ch]
    /\ pc' = [pc EXCEPT ![l] = "parked"]
    /\ UNCHANGED <<hostVars, ev, chanVars, w, err, ret, fd, fileVars, ops, histVars>>

\* run as it would be with `continue` in place of `return` in the !ok
\* branch of watcher.Events.
CaseEventsClosed_Continues(l) ==
    /\ Alive
    /\ pc[l] = "evclosed"
    /\ pc' = [pc EXCEPT ![l] = "loop"]
    /\ UNCHANGED <<hostVars, ex, ev, chanVars, w, err, ret, fd, fileVars, ops, histVars>>

\* if !ok { return } on watcher.Events.
CaseEventsClosed(l) ==
    /\ Alive
    /\ pc[l] = "evclosed"
    /\ Return(l, "evclosed")
    /\ UNCHANGED <<hostVars, ex, evcl, errcl, err, fd, fileVars, ops>>

\* if !ok { return } on watcher.Errors.
CaseErrorsClosed(l) ==
    /\ Alive
    /\ pc[l] = "errclosed"
    /\ Return(l, "errclosed")
    /\ UNCHANGED <<hostVars, ex, evcl, errcl, err, fd, fileVars, ops>>

\* run as it would be if a watcher error ended it.
CaseError_Returns(l) ==
    /\ Alive
    /\ pc[l] = "error"
    /\ Return(l, "error")
    /\ UNCHANGED <<hostVars, ex, evcl, errcl, err, fd, fileVars, ops>>

\* A value from watcher.Errors: log it and go round the loop.
CaseError(l) ==
    /\ Alive
    /\ pc[l] = "error"
    /\ pc' = [pc EXCEPT ![l] = "loop"]
    /\ UNCHANGED <<hostVars, ex, ev, chanVars, w, err, ret, fd, fileVars, ops, histVars>>

\* case <-p.exit: log and return.
CaseExit(l) ==
    /\ Alive
    /\ pc[l] = "exit"
    /\ Return(l, "exit")
    /\ UNCHANGED <<hostVars, ex, evcl, errcl, err, fd, fileVars, ops>>

\* ------------------------------------------------- run: one notification
\* destPath := filepath.Join(destDir, filepath.Base(event.Name))
DestPath(e) == Join(DestDir, Base(e.name))

\* Back to the top of the for loop (continue, or the end of the select).
Continue(l, failure) ==
    /\ pc' = [pc EXCEPT ![l] = "loop"]
    /\ ev' = [ev EXCEPT ![l] = NoEvent]
    /\ err' = [err EXCEPT ![l] = "nil"]
    /\ nerr' = [nerr EXCEPT ![l] = 0]
    /\ failed' = [failed EXCEPT ![l] = failure]

\* run as it would be without the info.IsDir() test.
StatEvent_NoDirCheck(l) ==
    /\ Alive
    /\ pc[l] = "stat"
    /\ IF fs[ev[l].name].kind = "none" THEN Continue(l, TRUE)
       ELSE /\ pc' = [pc EXCEPT ![l] = "cfstat"]
            /\ UNCHANGED <<ev, err, nerr, failed>>
    /\ UNCHANGED <<hostVars, ex, chanVars, w, ret, fd, fileVars, ops, stopVars>>

\* info, err := os.Stat(event.Name): continue on an error or a directory.
StatEvent(l) ==
    /\ Alive
    /\ pc[l] = "stat"
    /\ IF fs[ev[l].name].kind = "none" THEN Continue(l, TRUE)
       ELSE IF fs[ev[l].name].kind = "dir" THEN Continue(l, FALSE)
       ELSE /\ pc' = [pc EXCEPT ![l] = "cfstat"]
            /\ UNCHANGED <<ev, err, nerr, failed>>
    /\ UNCHANGED <<hostVars, ex, chanVars, w, ret, fd, fileVars, ops, stopVars>>

\* copyFile returns e to run.
CopyReturn(l, e) ==
    /\ pc' = [pc EXCEPT ![l] = "copied"]
    /\ err' = [err EXCEPT ![l] = e]
    /\ fd' = [fd EXCEPT ![l] = NoFd]

\* copyFile as it would be without the Mode().IsRegular() test.
CopyStat_NoRegularCheck(l) ==
    /\ Alive
    /\ pc[l] = "cfstat"
    /\ IF fs[ev[l].name].kind = "none" THEN CopyReturn(l, "ENOENT")
       ELSE /\ pc' = [pc EXCEPT ![l] = "open"]
            /\ UNCHANGED <<err, fd>>
    /\ UNCHANGED <<hostVars, ex, ev, chanVars, w, ret, fileVars, ops, histVars>>

\* copyFile: os.Stat(src) and the Mode().IsRegular() test.
CopyStat(l) ==
    /\ Alive
    /\ pc[l] = "cfstat"
    /\ LET k == fs[ev[l].name].kind IN
       IF k = "none" THEN CopyReturn(l, "ENOENT")
       ELSE IF k # "reg" THEN CopyReturn(l, "not a regular file")
       ELSE /\ pc' = [pc EXCEPT ![l] = "open"]
            /\ UNCHANGED <<err, fd>>
    /\ UNCHANGED <<hostVars, ex, ev, chanVars, w, ret, fileVars, ops, histVars>>

\* copyFile: os.Open(src).  A directory opens; a missing or unreadable
\* file, or one that is neither file nor directory, does not.
CopyOpen(l) ==
    /\ Alive
    /\ pc[l] = "open"
    /\ LET f == fs[ev[l].name] IN
       IF f.kind = "none" THEN CopyReturn(l, "ENOENT")
       ELSE IF f.kind = "other" THEN CopyReturn(l, "ENXIO")
       ELSE \/ /\ fd' = [fd EXCEPT ![l] = [kind |-> f.kind, data |-> f.data,
                                            path |-> ev[l].name, linked |-> TRUE]]
               /\ pc' = [pc EXCEPT ![l] = "create"]
               /\ UNCHANGED err
            \/ CopyReturn(l, "EACCES")
    /\ UNCHANGED <<hostVars, ex, ev, chanVars, w, ret, fileVars, ops, histVars>>

\* copyFile: os.Create(dst) creates the file or truncates the one there.
CopyCreate(l) ==
    /\ Alive
    /\ pc[l] = "create"
    /\ LET dst == DestPath(ev[l]) IN
       IF destDir # "dir" THEN
           /\ CopyReturn(l, IF destDir = "absent" THEN "ENOENT"
                            ELSE IF destDir = "file" THEN "ENOTDIR" ELSE "EACCES")
           /\ UNCHANGED fs
       ELSE IF fs[dst].kind \in {"dir", "other"} THEN
           /\ CopyReturn(l, "EISDIR")
           /\ UNCHANGED fs
       ELSE \/ /\ fs' = [fs EXCEPT ![dst] = Reg(<<>>)]
               /\ pc' = [pc EXCEPT ![l] = "copy"]
               /\ UNCHANGED <<err, fd>>
            \/ /\ CopyReturn(l, "EACCES")
               /\ UNCHANGED fs
    /\ UNCHANGED <<hostVars, ex, ev, chanVars, w, ret, dirVars, ops, histVars>>

\* Writing d at offset 0 of a file that holds old.
Overlay(d, old) == d \o SubSeq(old, Len(d) + 1, Len(old))

\* copyFile as it would be if it dropped the error of io.Copy and returned nil.
CopyIO_DropsError(l) ==
    /\ Alive
    /\ pc[l] = "copy"
    /\ \E part \in Prefixes(fd[l].data) \cup {fd[l].data} :
          /\ fs' = [fs EXCEPT ![DestPath(ev[l])] = Reg(Overlay(part, fs[DestPath(ev[l])].data))]
          /\ CopyReturn(l, "nil")
    /\ UNCHANGED <<hostVars, ex, ev, chanVars, w, ret, dirVars, ops, histVars>>

\* copyFile: io.Copy(destination, source), then the deferred Close calls.
\* Reading a directory fails; a write can fail after part of the data.
CopyIO(l) ==
    /\ Alive
    /\ pc[l] = "copy"
    /\ LET dst == DestPath(ev[l]) IN
       IF fd[l].kind = "dir" THEN
           /\ CopyReturn(l, "EISDIR")
           /\ UNCHANGED fs
       ELSE \/ /\ fs' = [fs EXCEPT ![dst] = Reg(Overlay(fd[l].data, fs[dst].data))]
               /\ CopyReturn(l, "nil")
            \/ \E part \in Prefixes(fd[l].data) :
                  /\ fs' = [fs EXCEPT ![dst] = Reg(Overlay(part, fs[dst].data))]
                  /\ CopyReturn(l, "EIO")
    /\ UNCHANGED <<hostVars, ex, ev, chanVars, w, ret, dirVars, ops, histVars>>

\* run as it would be if a copy error ended it (return instead of logging).
LogOutcome_ReturnsOnError(l) ==
    /\ Alive
    /\ pc[l] = "copied"
    /\ IF err[l] # "nil"
       THEN /\ Return(l, "copy")
            /\ UNCHANGED err
       ELSE /\ Continue(l, FALSE)
            /\ UNCHANGED <<ret, w, evq, errq, stopVars>>
    /\ UNCHANGED <<hostVars, ex, evcl, errcl, fd, fileVars, ops>>

\* run logs the outcome of copyFile and goes round the loop.
LogOutcome(l) ==
    /\ Alive
    /\ pc[l] = "copied"
    /\ Continue(l, err[l] # "nil")
    /\ stopCopy' = IF stopCopy = l THEN 0 ELSE stopCopy
    /\ UNCHANGED <<hostVars, ex, chanVars, w, ret, fd, fileVars, ops, stopDone>>

\* ------------------------------------------------------------ environment
Watching(l) == w[l] = "watching"

\* The watcher of every subscribed loop sends the notification: a parked
\* select receives it at once, otherwise it waits in watcher.Events.  The
\* notification is late for a loop whose own exit channel is closed.
Notify(path, op) ==
    LET got(l) == Watching(l) /\ ~evcl[l]
        e(l) == [name |-> path, op |-> op, late |-> l \in closed] IN
    /\ pc' = [l \in Loops |-> IF got(l) /\ pc[l] = "parked"
                              THEN AfterEvent(e(l)) ELSE pc[l]]
    /\ ev' = [l \in Loops |-> IF got(l) /\ pc[l] = "parked"
                              THEN Received(e(l)) ELSE ev[l]]
    /\ evq' = [l \in Loops |-> IF got(l) /\ pc[l] # "parked"
                               THEN Append(evq[l], e(l)) ELSE evq[l]]
    /\ nerr' = [l \in Loops |-> IF got(l) /\ pc[l] = "parked" /\ ~IsCreate(op)
                                THEN 0 ELSE nerr[l]]

\* The environment acts while some loop's subscription is established.
EnvStep ==
    /\ Alive
    /\ ops < MaxOps
    /\ \E l \in Loops : Watching(l)
    /\ ops' = ops + 1

\* Something appears in the source directory.
EnvCreate(n, entry) ==
    /\ EnvStep
    /\ fs[Join(SourceDir, n)] = Absent
    /\ fs' = [fs EXCEPT ![Join(SourceDir, n)] = entry]
    /\ Notify(Join(SourceDir, n), Create)
    /\ UNCHANGED <<hostVars, ex, errq, evcl, errcl, w, err, ret, fd, dirVars,
                   failed, stopVars>>

\* A regular file of the source directory is rewritten in place; a copy
\* that has it open reads the new content.
EnvWrite(n, d) ==
    /\ EnvStep
    /\ fs[Join(SourceDir, n)].kind = "reg"
    /\ fs[Join(SourceDir, n)].data # d
    /\ fs' = [fs EXCEPT ![Join(SourceDir, n)] = Reg(d)]
    /\ fd' = [l \in Loops |->
                IF fd[l].linked /\ fd[l].path = Join(SourceDir, n)
                THEN [fd[l] EXCEPT !.data = d] ELSE fd[l]]
    /\ Notify(Join(SourceDir, n), WriteOp)
    /\ UNCHANGED <<hostVars, ex, errq, evcl, errcl, w, err, ret, dirVars,
                   failed, stopVars>>

\* An entry of the source directory is removed; a copy that has it open
\* keeps reading the unlinked file.
EnvRemove(n) ==
    /\ EnvStep
    /\ fs[Join(SourceDir, n)] # Absent
    /\ fs' = [fs EXCEPT ![Join(SourceDir, n)] = Absent]
    /\ fd' = [l \in Loops |->
                IF fd[l].linked /\ fd[l].path = Join(SourceDir, n)
                THEN [fd[l] EXCEPT !.linked = FALSE] ELSE fd[l]]
    /\ Notify(Join(SourceDir, n), RemoveOp)
    /\ UNCHANGED <<hostVars, ex, errq, evcl, errcl, w, err, ret, dirVars,
                   failed, stopVars>>

\* The watcher of loop l reports an error on watcher.Errors.
EnvError(l) ==
    /\ EnvStep
    /\ Watching(l) /\ ~errcl[l]
    /\ IF pc[l] = "parked"
       THEN /\ pc' = [pc EXCEPT ![l] = "error"]
            /\ nerr' = [nerr EXCEPT ![l] = nerr[l] + 1]
            /\ UNCHANGED errq
       ELSE /\ errq' = [errq EXCEPT ![l] = errq[l] + 1]
            /\ UNCHANGED <<pc, nerr>>
    /\ UNCHANGED <<hostVars, ex, ev, evq, evcl, errcl, w, err, ret, fd, fileVars,
                   failed, stopVars>>

\* The notification subsystem of loop l ends and closes watcher.Events.
EnvCloseEvents(l) ==
    /\ EnvStep
    /\ Watching(l) /\ ~evcl[l]
    /\ evcl' = [evcl EXCEPT ![l] = TRUE]
    /\ pc' = [pc EXCEPT ![l] = IF pc[l] = "parked" THEN "evclosed" ELSE pc[l]]
    /\ UNCHANGED <<hostVars, ex, ev, evq, errq, errcl, w, err, ret, fd, fileVars, histVars>>

\* The notification subsystem of loop l ends and closes watcher.Errors.
EnvCloseErrors(l) ==
    /\ EnvStep
    /\ Watching(l) /\ ~errcl[l]
    /\ errcl' = [errcl EXCEPT ![l] = TRUE]
    /\ pc' = [pc EXCEPT ![l] = IF pc[l] = "parked" THEN "errclosed" ELSE pc[l]]
    /\ UNCHANGED <<hostVars, ex, ev, evq, errq, evcl, w, err, ret, fd, fileVars, histVars>>

\* ------------------------------------------------------------------- main
\* What main leaves alone on its way to and from s.Run().
serviceVars == <<exit, closed, pc, ex, ev, chanVars, w, err, ret, fd, fileVars, ops,
                 histVars, startRet>>

\* svcLogger, err = s.Logger(nil): the service manager hands out a logger, or
\* fails, and main prints the error and goes on with svcLogger nil.
MainLogger ==
    /\ mainPc = "logger"
    /\ svcLogger' \in {"ok", "nil"}
    /\ mainPc' = "run"
    /\ UNCHANGED <<panicked, serviceVars>>

\* err = s.Run(): the service manager takes over and will call Start and
\* Stop, or s.Run fails at once.
MainRun ==
    /\ mainPc = "run"
    /\ mainPc' \in {"running", "runerr"}
    /\ UNCHANGED <<panicked, svcLogger, serviceVars>>

\* s.Run() returns after Stop: with nil main returns and the process ends,
\* with an error main goes on to log it.
MainRunReturns ==
    /\ mainPc = "stopped"
    /\ panicked = ""
    /\ \/ /\ mainPc' = "exited"
          /\ ProcessEnds
       \/ /\ mainPc' = "runerr"
          /\ UNCHANGED <<pc, ex, ev, evq, errq, err, fd, nerr, failed>>
    /\ UNCHANGED <<exit, closed, panicked, svcLogger, evcl, errcl, w, ret, fileVars,
                   ops, stopVars, startRet>>

\* if err != nil { svcLogger.Error(err) }: the call is made on svcLogger as
\* it is, and a method call on a nil interface value panics.  Then main
\* returns.
MainLogError ==
    /\ mainPc = "runerr"
    /\ panicked = ""
    /\ IF svcLogger = "nil"
       THEN /\ Panic("nil pointer dereference")
            /\ UNCHANGED mainPc
       ELSE /\ ProcessEnds
            /\ mainPc' = "exited"
            /\ UNCHANGED panicked
    /\ UNCHANGED <<exit, closed, svcLogger, evcl, errcl, w, ret, fileVars, ops,
                   stopVars, startRet>>

\* ---------------------------------------------------------- specification
Entries == {Reg(<<1>>), Dir, Other}

Setup(l) == EnsureDestDir(l) \/ NewWatcher(l) \/ WatcherAdd(l)

Select(l) ==
    \/ SelectEvent(l) \/ SelectEventsClosed(l)
    \/ SelectError(l) \/ SelectErrorsClosed(l)
    \/ SelectExit(l) \/ SelectPark(l)

Cases(l) ==
    \/ CaseEventsClosed(l) \/ CaseError(l) \/ CaseErrorsClosed(l) \/ CaseExit(l)

Copy(l) ==
    \/ StatEvent(l) \/ CopyStat(l) \/ CopyOpen(l) \/ CopyCreate(l)
    \/ CopyIO(l) \/ LogOutcome(l)

\* One step of the goroutine running loop l.
Run(l) == Setup(l) \/ Select(l) \/ Cases(l) \/ Copy(l)

Env ==
    \/ \E n \in Names, entry \in Entries : EnvCreate(n, entry)
    \/ \E n \in Names, d \in Data : EnvWrite(n, d)
    \/ \E n \in Names : EnvRemove(n)
    \/ \E l \in Loops : EnvError(l) \/ EnvCloseEvents(l) \/ EnvCloseErrors(l)

Next ==
    \/ Start
    \/ Stop
    \/ \E l \in Loops : Run(l)
    \/ Env

Spec == Init /\ [][Next]_vars

\* The Go scheduler runs every runnable goroutine, and select chooses
\* uniformly at random among its ready cases, so a case that is ready again
\* and again is eventually chosen.  Nothing obliges the host or the
\* environment to act.
Fairness == \A l \in Loops : WF_vars(Run(l)) /\ SF_vars(SelectExit(l))

FairSpec == Init /\ [][Next]_vars /\ Fairness

\* The program as main runs it: main obtains the logger and calls s.Run(),
\* under which the service manager calls Start once and Stop once.
MainInit == InitState /\ mainPc = "logger"

Main == MainLogger \/ MainRun \/ MainRunReturns \/ MainLogError

MainNext ==
    \/ Main
    \/ Next

MainSpec == MainInit /\ [][MainNext]_vars

\* ================================================================= claims
\* The dispatch loop l is running: launched and not yet returned.
Running(l) == pc[l] \notin {"none", "done", "crashed"}
\* Loop l is handling a notification (from os.Stat to the outcome of copyFile).
Handling(l) == pc[l] \in {"stat", "cfstat", "open", "create", "copy", "copied"}

\* C1: once Stop has closed the exit channel of a loop, no notification that
\* the watcher delivers to that loop afterwards is handled (no stat, no copy).
C1_NoNotificationAfterStop ==
    \A l \in Loops : Handling(l) => ~ev[l].late

\* C2: at most one dispatch loop runs at any time, the host starting the
\* service again only after the preceding Stop has returned.
C2_AtMostOneLoop ==
    Cardinality({l \in Loops : Running(l)}) <= 1

\* C3: after Stop has closed the exit channel made by a Start, the loop that
\* Start launched eventually returns (or ends with the process).
C3_StoppedLoopReturns ==
    \A l \in Loops : (l \in closed) ~> (pc[l] \in {"done", "crashed"})

\* C4: a second Stop on a started and already stopped controller is a no-op:
\* it does not panic and does not fire the signal again.
C4_SecondStopIsNoOp ==
    [][(exit \in closed /\ Stop) => (panicked' = "" /\ closed' = closed)]_vars

\* The create notification of path p has been delivered to loop l and is
\* waiting in watcher.Events or being handled.
Delivered(l, p) ==
    \/ ev[l].name = p /\ IsCreate(ev[l].op)
    \/ \E i \in 1..Len(evq[l]) : evq[l][i].name = p /\ IsCreate(evq[l][i].op)

\* The destination directory holds a regular file named n with the content
\* of the regular file n of the source directory.
Copied(n) ==
    /\ fs[Join(SourceDir, n)].kind = "reg"
    /\ fs[Join(DestDir, n)] = fs[Join(SourceDir, n)]

C7_NotRegularNoWrite ==
    [][\A l \in Loops :
          (pc[l] = "cfstat" /\ fs[ev[l].name].kind \in {"dir", "other"} /\ Run(l))
              => /\ pc'[l] = "copied"
                 /\ err'[l] = "not a regular file"
                 /\ fs' = fs
                 /\ destDir' = destDir]_vars

\* C7 witness: copyFile has refused a source that is neither file nor
\* directory, and the destination file that was there before keeps its content.
C7_Witness ==
    \E l \in Loops :
        /\ pc[l] = "copied" /\ err[l] = "not a regular file"
        /\ fs[ev[l].name].kind = "other"
        /\ fs[DestPath(ev[l])] = Reg(<<1, 2>>)

\* C8: handling a value received on watcher.Errors leaves the loop watching:
\* it goes back to the select with its watcher open and the waiting
\* notifications kept.
C8_WatcherErrorKeepsWatching ==
    [][\A l \in Loops :
          (pc[l] = "error" /\ Run(l))
              => /\ pc'[l] = "loop"
                 /\ w'[l] = "watching"
                 /\ evq'[l] = evq[l]
                 /\ fs' = fs]_vars

\* C8 witness: after two watcher errors in a row the loop has handled a create
\* notification and copied the file.
C8_Witness ==
    \E l \in Loops :
        /\ nerr[l] >= 2
        /\ pc[l] = "copied" /\ err[l] = "nil"
        /\ Copied(Base(ev[l].name))

\* C9: no step of the handling of a notification ends the loop: a failed
\* os.Stat and every outcome of copyFile lead back to the select with the
\* watcher open, and a watching loop returns only from the exit case or from
\* a closed stream.
C9_FileFailureKeepsWatching ==
    [][\A l \in Loops :
          (w[l] = "watching" /\ Run(l)) =>
              /\ Handling(l) => (w'[l] = "watching" /\ (Handling(l)' \/ pc'[l] = "loop"))
              /\ (pc[l] = "stat" /\ fs[ev[l].name].kind = "none") => pc'[l] = "loop"
              /\ pc[l] = "copied" => pc'[l] = "loop"
              /\ pc'[l] = "done" => pc[l] \in {"evclosed", "errclosed", "exit"}]_vars

\* C9 witness: the previous notification failed (stat or copy) and the loop
\* has since handled the next one and copied its file.
C9_Witness ==
    \E l \in Loops :
        /\ failed[l]
        /\ pc[l] = "copied" /\ err[l] = "nil"

\* C10: a Stop issued once the loop of the current exit channel has returned
\* on its own completes without a panic and closes that channel, which was
\* open until then, so the signal fires once.
C10_StopAfterLoopExit ==
    [][(exit # 0 /\ exit \notin closed /\ pc[exit] = "done" /\ Stop)
          => (panicked' = "" /\ closed' = closed \cup {exit})]_vars

\* C10 witness: the signal has fired once, by a Stop that found the loop
\* already returned through a closed stream or a failed setup.
C10_Witness ==
    /\ stopDone /\ Alive
    /\ exit \in closed
    /\ pc[exit] = "done"
    /\ ret[exit] \in {"evclosed", "errclosed", "mkdir", "newwatcher", "add"}

\* C19: with svcLogger nil no part of the program panics, main after a failed
\* s.Logger and a failed s.Run included.
C19_NilLoggerNeverCrashes ==
    svcLogger = "nil" => panicked = ""

\* run has failed in its setup: it returned from the MkdirAll, NewWatcher or
\* watcher.Add error branch.
SetupFailed(l) == pc[l] = "done" /\ ret[l] \in {"mkdir", "newwatcher", "add"}

\* C11: Start returns nil at once: the call makes an exit channel never used
\* before and still open, leaves the loop it launched at the entry of run
\* (nothing validated yet) and panics never; a setup failure of run comes
\* after Start has returned nil and changes neither that result nor the
\* controller.
C11_StartReturnsAtOnce ==
    [][/\ Start => /\ startRet' = "nil"
                   /\ exit' \notin (0..exit) \cup closed'
                   /\ pc'[exit'] = "idle"
                   /\ \A l \in Loops \ {exit'} : pc'[l] = pc[l]
                   /\ panicked' = ""
       /\ \A l \in Loops :
             (pc[l] \in {"idle", "newwatcher", "add"} /\ pc'[l] = "done")
                 => /\ startRet = "nil" /\ startRet' = "nil"
                    /\ exit' = exit /\ closed' = closed
                    /\ panicked' = ""]_vars

C11_Witness ==
    /\ Alive /\ startRet = "nil"
    /\ \E l \in Loops : SetupFailed(l) /\ l \notin closed

\* C12: a destination directory that is missing when run starts is created
\* before the watcher is: while it is missing no loop has a watcher, is
\* subscribed or handles a notification, and the step of run that finds it
\* missing either creates it or ends run.
C12_DestDirBeforeWatch ==
    /\ [](\A l \in Loops :
            destDir = "absent" => /\ w[l] \in {"none", "closed"}
                                  /\ ~Watching(l)
                                  /\ ~Handling(l)
                                  /\ pc[l] \in {"none", "idle", "done", "crashed"})
    /\ [][\A l \in Loops :
            (pc[l] = "idle" /\ destDir = "absent" /\ Run(l))
                => \/ destDir' = "dir" /\ pc'[l] = "newwatcher" /\ w'[l] = "none"
                   \/ destDir' = "absent" /\ pc'[l] = "done" /\ w'[l] = "none"]_vars

C12_Witness ==
    /\ made /\ destDir = "dir"
    /\ \E l \in Loops : Watching(l) /\ Handling(l)

\* C13: when the destination path is not a usable directory at the entry of
\* run and is not made one (os.Stat fails, the path names something that is
\* not a directory, or MkdirAll fails), run goes from its entry straight to
\* its return and never subscribes.
C13_BadDestDirStopsLoop ==
    \A l \in Loops :
        destDir # "dir" => /\ pc[l] \in {"none", "idle", "done", "crashed"}
                           /\ ~Watching(l)

\* C14: when run has returned, the watcher it created is closed, whichever
\* return it took (watcher.Add failed, a stream closed, exit), and a run
\* that returned before it had a watcher has none and closed nothing; no
\* return of run panics.
C14_WatcherClosedOnReturn ==
    /\ [](\A l \in Loops :
            pc[l] = "done" =>
                /\ ret[l] \in {"mkdir", "newwatcher"} => w[l] = "none"
                /\ ret[l] \in {"add", "evclosed", "errclosed", "exit"} => w[l] = "closed"
                /\ ret[l] \in {"mkdir", "newwatcher", "add", "evclosed", "errclosed", "exit"})
    /\ [][\A l \in Loops :
            (pc[l] # "done" /\ pc'[l] = "done")
                => /\ panicked' = ""
                   /\ w'[l] = IF w[l] = "none" THEN "none" ELSE "closed"]_vars

C14_Witness ==
    /\ Alive
    /\ \E l \in Loops : pc[l] = "done" /\ ret[l] = "add" /\ w[l] = "closed"
    /\ \E l \in Loops : pc[l] = "done" /\ ret[l] = "exit" /\ w[l] = "closed"

\* Loop l is inside the for loop of run.
InLoop(l) ==
    pc[l] \in {"loop", "parked", "evclosed", "errclosed", "error", "exit"} \/ Handling(l)

\* C15: when fsnotify.NewWatcher or watcher.Add fails run returns: the loop
\* was never subscribed and never entered the for loop, it holds and handles
\* no notification, and a run that has returned does not start again.
C15_WatchFailureAborts ==
    /\ [](\A l \in Loops :
            /\ InLoop(l) => Watching(l)
            /\ ret[l] \in {"newwatcher", "add"}
                  => /\ pc[l] = "done" /\ ~Watching(l)
                     /\ ev[l] = NoEvent /\ evq[l] = <<>>)
    /\ [][\A l \in Loops :
            /\ pc[l] = "done" => pc'[l] = "done"
            /\ (~Watching(l) /\ w'[l] = "watching")
                  => pc[l] = "add" /\ pc'[l] = "loop"
            /\ (pc[l] \in {"newwatcher", "add"} /\ Run(l))
                  => \/ pc[l] = "newwatcher" /\ pc'[l] = "add" /\ w'[l] = "new"
                     \/ pc[l] = "add" /\ pc'[l] = "loop" /\ w'[l] = "watching"
                     \/ /\ pc'[l] = "done" /\ ret'[l] = pc[l]
                        /\ w'[l] # "watching" /\ fs' = fs]_vars

C15_Witness ==
    /\ Alive
    /\ \E l \in Loops : pc[l] = "done" /\ ret[l] = "newwatcher" /\ l \notin closed
    /\ \E l \in Loops : pc[l] = "done" /\ ret[l] = "add"

\* C16: a closed stream ends the loop as exit does, Stop or no Stop: a select
\* parked when a stream closes is handed the closed case, a select never
\* parks while a stream is closed, the loop that received the closure
\* returns in its next step with its watcher closed and touching no file,
\* and a loop that has returned handles nothing any more.
C16_StreamClosureStopsLoop ==
    /\ [](\A l \in Loops :
            /\ pc[l] = "parked" => ~evcl[l] /\ ~errcl[l]
            /\ pc[l] = "done" => ~Handling(l) /\ ev[l] = NoEvent /\ evq[l] = <<>>)
    /\ [][\A l \in Loops :
            /\ (pc[l] = "parked" /\ ~evcl[l] /\ evcl'[l]) => pc'[l] = "evclosed"
            /\ (pc[l] = "parked" /\ ~errcl[l] /\ errcl'[l]) => pc'[l] = "errclosed"
            /\ (pc[l] \in {"evclosed", "errclosed"} /\ Run(l))
                  => /\ pc'[l] = "done" /\ ret'[l] = pc[l]
                     /\ w'[l] = "closed"
                     /\ fs' = fs /\ closed' = closed /\ panicked' = ""
            /\ pc[l] = "done" => pc'[l] = "done"]_vars

C16_Witness ==
    /\ Alive /\ closed = {}
    /\ \E l \in Loops :
          /\ pc[l] = "done" /\ ret[l] \in {"evclosed", "errclosed"}
          /\ w[l] = "closed"
          /\ \E p \in DstPaths : fs[p] = Reg(<<1>>)

\* Loop l is inside copyFile: a Copy Operation is in flight.
Copying(l) == pc[l] \in {"cfstat", "open", "create", "copy"}

\* C17: the controller has at most one copyFile call in flight at any time,
\* whatever the sequence of Start, Stop and notifications.
C17_OneCopyAtATime ==
    Cardinality({l \in Loops : Copying(l)}) <= 1

\* C18: a copy in flight when Stop closes the exit channel is not cancelled:
\* the close leaves the loop where it is in copyFile with its open file,
\* every step of a loop inside copyFile stays in copyFile or ends it with its
\* result, the result is logged back at the top of the loop, and the exit
\* case is taken only from the select, so after the copy.
C18_CopyOutlivesStop ==
    [][\A l \in Loops :
          /\ (Copying(l) /\ exit \notin closed /\ Stop)
                => /\ closed' = closed \cup {exit}
                   /\ pc'[l] = pc[l] /\ fd'[l] = fd[l] /\ ev'[l] = ev[l]
                   /\ fs' = fs /\ panicked' = ""
          /\ (Copying(l) /\ Run(l))
                => pc'[l] \in {"cfstat", "open", "create", "copy", "copied"}
          /\ (pc[l] = "copied" /\ Run(l)) => pc'[l] = "loop"
          /\ (pc[l] # "exit" /\ pc'[l] = "exit") => pc[l] \in {"loop", "parked"}
          /\ (pc[l] # "done" /\ pc'[l] = "done" /\ ret'[l] = "exit") => pc[l] = "exit"]_vars

C18_Witness ==
    /\ Alive
    /\ \E l \in Loops :
          /\ stopCopy = l /\ l \in closed
          /\ pc[l] = "copied" /\ err[l] = "nil"
          /\ fs[DestPath(ev[l])].kind = "reg"

\* The Create bit is set in operation op.
HasCreateBit(op) == (op \div Create) % 2 = 1

\* C20: only notifications whose operation includes Create are acted upon: a
\* loop that stats or copies is handling one, and the receipt of any other
\* notification, from the queue or by a parked select, takes the loop back
\* to the top of its loop, still subscribed, with no file opened and the
\* destination as it was.
C20_OnlyCreateHandled ==
    /\ [](\A l \in Loops : Handling(l) => HasCreateBit(ev[l].op))
    /\ [][\A l \in Loops :
            /\ (/\ pc[l] = "loop" /\ evq[l] # <<>>
                /\ ~HasCreateBit(Head(evq[l]).op)
                /\ SelectEvent(l))
                  => /\ pc'[l] = "loop" /\ ev'[l] = NoEvent
                     /\ evq'[l] = Tail(evq[l])
                     /\ w'[l] = "watching" /\ fd' = fd /\ err' = err
                     /\ fs' = fs /\ destDir' = destDir
            /\ (/\ pc[l] = "parked" /\ Watching(l) /\ ~evcl[l]
                /\ \E n \in Names : EnvRemove(n) \/ \E d \in Data : EnvWrite(n, d))
                  => /\ pc'[l] = "loop" /\ ev'[l] = NoEvent
                     /\ w'[l] = "watching" /\ fd'[l] = NoFd
                     /\ \A p \in DstPaths : fs'[p] = fs[p]]_vars

\* A file was created and copied in full into the directory run had made,
\* then rewritten; the loop has received the write notification, is parked
\* again, and the copy in the destination is the one made before.
C20_Witness ==
    /\ Alive /\ exit = 1 /\ closed = {} /\ made
    /\ pc[1] = "parked" /\ evq[1] = <<>> /\ ~evcl[1] /\ ~failed[1]
    /\ fs[Join(SourceDir, "a")] = Reg(<<1, 2>>)
    /\ fs[Join(DestDir, "a")] = Reg(<<1>>)

====
